---------------------------- MODULE Spec2Model ----------------------------
(***************************************************************************)
(* Link Icon plugin: the folder-to-icon mapping table kept in the plugin   *)
(* settings, its loading and migration, its editing from the settings tab, *)
(* the longest-prefix lookup findIconForFolder that rendering passes run   *)
(* against it, and the drawing of the icons: the pass over the links of a  *)
(* rendered note and the widgets of the editor.                            *)
(*                                                                         *)
(* A string is a sequence of tokens.  The token "/" is the path separator; *)
(* every other token stands for a non-empty run of characters without a    *)
(* slash, so <<"a", "/", "a">> is the string a/a and <<"a", "a">> is the   *)
(* one-segment string aa.  Icon names and colours are opaque and are       *)
(* written as plain strings.                                               *)
(***************************************************************************)
EXTENDS Integers, Sequences, FiniteSets, TLC

VARIABLES
    pc,          \* "onload" until loadSettings has completed, then "loaded"
    persisted,   \* what loadData() returns: the content of data.json, or null
    settings,    \* this.settings of the plugin
    calls,       \* findIconForFolder calls of the rendering pass in progress
    targets,     \* what each link of the open note resolves to
    dom,         \* children of the element that holds the links of the note
    decorations, \* widgets of the CodeMirror state field
    raised,      \* whether an exception has left a handler of the plugin
    rows,        \* rows of the settings tab, each with the mapping it captured
    pending,     \* settings handlers suspended at await saveSettings()
    modal,       \* the icon picker
    plugin,      \* observer, mutationTimeout, lastProcessTime, periodicCheckInterval
    now,         \* Date.now(), in units of TimeUnit milliseconds
    timers       \* callbacks the plugin has scheduled with setTimeout

renderVars == <<targets, dom, decorations, raised>>

tabVars == <<rows>>

asyncVars == <<pending, modal, plugin, now, timers>>

vars == <<pc, persisted, settings, calls, targets, dom, decorations, raised, rows,
          pending, modal, plugin, now, timers>>

---------------------------------------------------------------------------
(* Bounds and the fixture the plugin runs in.                              *)

\* Longest folder path, in tokens, handed to findIconForFolder.
MaxPathLen == 4

\* Most links of one rendered element that point into the same folder.
MaxCalls == 2

Slash == "/"

FolderNames == {"a", "constructor"}

Tokens == FolderNames \cup {Slash}

\* All strings of at most n tokens.
StringsUpTo(n) == UNION {[1..k -> Tokens] : k \in 0..n}

Paths == StringsUpTo(MaxPathLen)

\* The folders of the vault, as app.vault.getAllFolders() lists them.
VaultFolders == {<<"a">>, <<"a", "/", "a">>, <<"constructor">>}

\* Icon names the icon picker hands to its onSelect callback.
PickerIcons == {"file"}

\* Icon names found as bare strings in a table of the old format.
OldFormatIcons == {"pencil"}

---------------------------------------------------------------------------
(* JavaScript values.  A FolderIconMapping is a record with an icon field   *)
(* and an optional color field; every other value carries a typeof tag.    *)

null == [typeof |-> "null"]

undefined == [typeof |-> "undefined"]

JsString(s) == [typeof |-> "string", value |-> s]

typeof(v) == IF "typeof" \in DOMAIN v THEN v.typeof ELSE "object"

IconNames ==
    {"file", "file-text", "pencil", "star", "circle", "square", "grid2x2",
     "a-arrow-down"}

Colors == {"#ff0000", "#00ff00"}

\* interface FolderIconMapping { icon: string; color?: string }
FolderIconMapping ==
    {[icon |-> i] : i \in IconNames}
        \cup {[icon |-> i, color |-> c] : i \in IconNames, c \in Colors}

\* Members every plain object inherits from Object.prototype; of these only
\* "constructor" can be spelled with the tokens of FolderNames.
ObjectPrototype ==
    [k \in {<<"constructor">>, <<"toString">>, <<"valueOf">>,
            <<"hasOwnProperty">>, <<"isPrototypeOf">>,
            <<"propertyIsEnumerable">>, <<"toLocaleString">>}
        |-> [typeof |-> "function", name |-> k]]

\* obj[key] read on a plain object: own property, else inherited, else
\* undefined.
Get(obj, key) ==
    IF key \in DOMAIN obj THEN obj[key]
    ELSE IF key \in DOMAIN ObjectPrototype THEN ObjectPrototype[key]
    ELSE undefined

\* The condition of if (v): null, undefined and "" are falsy; objects,
\* functions and non-empty strings are truthy.
Truthy(v) ==
    /\ v # null
    /\ v # undefined
    /\ v # JsString("")

\* obj[key] = v on a plain object.
Put(obj, key, v) ==
    [k \in DOMAIN obj \cup {key} |-> IF k = key THEN v ELSE obj[k]]

\* delete obj[key].
Delete(obj, key) == [k \in DOMAIN obj \ {key} |-> obj[k]]

\* The object literal {}.
EmptyObject == [k \in {} |-> null]

---------------------------------------------------------------------------
(* String and array operations findIconForFolder uses.                     *)

\* s.split("/"): the pieces between the slashes, empty pieces included.
RECURSIVE split(_)
split(s) ==
    IF \E i \in 1..Len(s) : s[i] = Slash
    THEN LET i == CHOOSE j \in 1..Len(s) :
                      /\ s[j] = Slash
                      /\ \A h \in 1..(j - 1) : s[h] # Slash
         IN  <<SubSeq(s, 1, i - 1)>> \o split(SubSeq(s, i + 1, Len(s)))
    ELSE <<s>>

\* The filter left out: empty pieces are kept.
filterNonEmpty_KeepsEmpty(parts) == parts

\* parts.filter(p => p !== "").
filterNonEmpty(parts) == SelectSeq(parts, LAMBDA p : p # <<>>)

\* parts.slice(0, i).
slice(parts, i) == SubSeq(parts, 1, i)

\* join with the separator forgotten: parts.join("").
RECURSIVE join_NoSeparator(_)
join_NoSeparator(parts) ==
    IF parts = <<>> THEN <<>>
    ELSE parts[1] \o join_NoSeparator(Tail(parts))

\* parts.join("/").
RECURSIVE join(_)
join(parts) ==
    IF parts = <<>> THEN <<>>
    ELSE IF Len(parts) = 1 THEN parts[1]
    ELSE parts[1] \o <<Slash>> \o join(Tail(parts))

---------------------------------------------------------------------------
(* findIconForFolder.                                                      *)

\* The third step: the root folder default, else null.
rootDefault(folderIconMap) ==
    IF Truthy(Get(folderIconMap, <<>>))
    THEN Get(folderIconMap, <<>>)
    ELSE null

\* parentWalk with the loop run upwards, for (let i = 1; i <= length; i++):
\* the shortest prefix that is mapped wins.
parentWalk_ShortestFirst(folderIconMap, pathParts, i) ==
    LET hits == {k \in 1..i : Truthy(Get(folderIconMap, join(slice(pathParts, k))))}
    IN  IF hits = {} THEN rootDefault(folderIconMap)
        ELSE Get(folderIconMap,
                 join(slice(pathParts, CHOOSE k \in hits : \A h \in hits : k <= h)))

\* parentWalk matching by characters: the longest non-empty key the joined
\* path starts with (folderPath.startsWith(key)) wins.
parentWalk_CharPrefix(folderIconMap, pathParts, i) ==
    LET full == join(slice(pathParts, i))
        hits == {k \in DOMAIN folderIconMap :
                    /\ k # <<>>
                    /\ Len(k) <= Len(full)
                    /\ SubSeq(full, 1, Len(k)) = k}
    IN  IF hits = {} THEN rootDefault(folderIconMap)
        ELSE folderIconMap[CHOOSE k \in hits : \A h \in hits : Len(h) <= Len(k)]

\* The loop for (let i = pathParts.length; i > 0; i--), entered at i, and
\* what follows it.
RECURSIVE parentWalk(_, _, _)
parentWalk(folderIconMap, pathParts, i) ==
    IF i > 0
    THEN LET partialPath == join(slice(pathParts, i))
         IN  IF Truthy(Get(folderIconMap, partialPath))
             THEN Get(folderIconMap, partialPath)
             ELSE parentWalk(folderIconMap, pathParts, i - 1)
    ELSE rootDefault(folderIconMap)

\* findIconForFolder with the root default tried first.
findIconForFolder_RootFirst(folderPath, folderIconMap) ==
    IF Truthy(Get(folderIconMap, <<>>))
    THEN Get(folderIconMap, <<>>)
    ELSE IF Truthy(Get(folderIconMap, folderPath))
    THEN Get(folderIconMap, folderPath)
    ELSE LET pathParts == filterNonEmpty(split(folderPath))
         IN  parentWalk(folderIconMap, pathParts, Len(pathParts))

\* findIconForFolder with an early if (!folderPath) return null.
findIconForFolder_EmptyPathNull(folderPath, folderIconMap) ==
    IF folderPath = <<>> THEN null
    ELSE IF Truthy(Get(folderIconMap, folderPath))
    THEN Get(folderIconMap, folderPath)
    ELSE LET pathParts == filterNonEmpty(split(folderPath))
         IN  parentWalk(folderIconMap, pathParts, Len(pathParts))

\* findIconForFolder with a one-shot result: a call made while the pass
\* already holds a result for the path returns null.
findIconForFolder_OneShot(folderPath, folderIconMap) ==
    IF calls # <<>> THEN null
    ELSE IF Truthy(Get(folderIconMap, folderPath))
    THEN Get(folderIconMap, folderPath)
    ELSE LET pathParts == filterNonEmpty(split(folderPath))
         IN  parentWalk(folderIconMap, pathParts, Len(pathParts))

\* The value findIconForFolder(folderPath) returns when this.settings
\* .folderIconMap is folderIconMap.
findIconForFolder(folderPath, folderIconMap) ==
    IF Truthy(Get(folderIconMap, folderPath))
    THEN Get(folderIconMap, folderPath)
    ELSE LET pathParts == filterNonEmpty(split(folderPath))
         IN  parentWalk(folderIconMap, pathParts, Len(pathParts))

\* findIconForFolder storing what it found under the path it was asked for.
findIconForFolderSettings_Caching(folderPath, s) ==
    [s EXCEPT !.folderIconMap =
        Put(@, folderPath, findIconForFolder(folderPath, @))]

\* this.settings as findIconForFolder leaves it: the function assigns to
\* no field of it.
findIconForFolderSettings(folderPath, s) == s

---------------------------------------------------------------------------
(* Settings: defaults, loading with migration, saving.                     *)

DEFAULT_SETTINGS ==
    [iconPosition |-> "before",
     folderIconMap |-> EmptyObject,
     iconSize |-> 16,
     iconColor |-> "var(--text-normal)"]

\* Object.assign({}, defaults, loadedData); a null source is skipped.
ObjectAssign(defaults, loadedData) ==
    IF loadedData = null THEN defaults
    ELSE [f \in DOMAIN defaults \cup (DOMAIN loadedData \ {"typeof"}) |->
            IF f \in DOMAIN loadedData THEN loadedData[f] ELSE defaults[f]]

\* loadedData && loadedData.folderIconMap
hasFolderIconMap(loadedData) ==
    /\ loadedData # null
    /\ "folderIconMap" \in DOMAIN loadedData

\* Object.values(map).some(value => typeof value === "string")
needsMigration(map) == \E k \in DOMAIN map : typeof(map[k]) = "string"

\* The migration loop without its else branch: records are not copied.
migratedMap_OnlyStrings(map) ==
    [folderPath \in {k \in DOMAIN map : typeof(map[k]) = "string"} |->
        [icon |-> map[folderPath].value]]

\* The table the migration loop builds from the loaded one.
migratedMap(map) ==
    [folderPath \in DOMAIN map |->
        IF typeof(map[folderPath]) = "string"
        THEN [icon |-> map[folderPath].value]
        ELSE map[folderPath]]

\* this.settings when loadSettings returns.
loadedSettings(loadedData) ==
    LET s == ObjectAssign(DEFAULT_SETTINGS, loadedData)
    IN  IF hasFolderIconMap(loadedData) /\ needsMigration(loadedData.folderIconMap)
        THEN [s EXCEPT !.folderIconMap = migratedMap(loadedData.folderIconMap)]
        ELSE s

\* loadSettings with the save moved out of if (needsMigration): every load
\* of a file with a table saves.
loadSaves_Always(loadedData) == hasFolderIconMap(loadedData)

\* Whether loadSettings reaches its await this.saveSettings().
loadSaves(loadedData) ==
    hasFolderIconMap(loadedData) /\ needsMigration(loadedData.folderIconMap)

---------------------------------------------------------------------------
(***************************************************************************)
(* Icon names, the Lucide catalog and the conversion between them.  An     *)
(* icon name is spelled out as its sequence of characters where the code   *)
(* converts it; everywhere else it is the plain string.                    *)
(***************************************************************************)
Spelling ==
    [n \in IconNames |->
        CASE n = "file"      -> <<"f", "i", "l", "e">>
          [] n = "file-text" -> <<"f", "i", "l", "e", "-", "t", "e", "x", "t">>
          [] n = "star"      -> <<"s", "t", "a", "r">>
          [] n = "pencil"    -> <<"p", "e", "n", "c", "i", "l">>
          [] n = "circle"    -> <<"c", "i", "r", "c", "l", "e">>
          [] n = "square"    -> <<"s", "q", "u", "a", "r", "e">>
          [] n = "grid2x2"   -> <<"g", "r", "i", "d", "2", "x", "2">>
          [] n = "a-arrow-down" ->
                 <<"a", "-", "a", "r", "r", "o", "w", "-", "d", "o", "w", "n">>]

LowerCaseLetters ==
    <<"a", "b", "c", "d", "e", "f", "g", "h", "i", "j", "k", "l", "m",
      "n", "o", "p", "q", "r", "s", "t", "u", "v", "w", "x", "y", "z">>

UpperCaseLetters ==
    <<"A", "B", "C", "D", "E", "F", "G", "H", "I", "J", "K", "L", "M",
      "N", "O", "P", "Q", "R", "S", "T", "U", "V", "W", "X", "Y", "Z">>

\* c.toUpperCase() for a single character.
toUpperCase(c) ==
    IF \E i \in DOMAIN LowerCaseLetters : LowerCaseLetters[i] = c
    THEN UpperCaseLetters[CHOOSE i \in DOMAIN LowerCaseLetters : LowerCaseLetters[i] = c]
    ELSE c

\* str.split(separator) on a sequence of characters.
RECURSIVE splitChars(_, _)
splitChars(str, separators) ==
    IF \A i \in DOMAIN str : str[i] \notin separators
    THEN <<str>>
    ELSE LET i == CHOOSE j \in DOMAIN str :
                      /\ str[j] \in separators
                      /\ \A h \in 1..(j - 1) : str[h] \notin separators
         IN  <<SubSeq(str, 1, i - 1)>>
                 \o splitChars(SubSeq(str, i + 1, Len(str)), separators)

\* word.charAt(0).toUpperCase() + word.slice(1)
capitalize(word) ==
    IF word = <<>> THEN <<>> ELSE <<toUpperCase(word[1])>> \o Tail(word)

\* words.join("")
RECURSIVE concat(_)
concat(words) ==
    IF words = <<>> THEN <<>> ELSE words[1] \o concat(Tail(words))

pascalOf(str, separators) ==
    LET words == splitChars(str, separators)
    IN  concat([i \in DOMAIN words |-> capitalize(words[i])])

\* LinkIconPlugin.toPascalCase
toPascalCase(str) == pascalOf(str, {"-", "_"})

\* LinkIconWidget.toPascalCase
widgetToPascalCase(str) == pascalOf(str, {"-"})

JsArray(items) == [isArray |-> TRUE, items |-> items]

isArray(v) == "isArray" \in DOMAIN v

\* The catalog.  File and FileText have the standard shape
\* ["svg", {attrs}, [children]], Star is an array of [tag, attrs] arrays,
\* Pencil alternates tags and attrs, Circle is not an array, Square is an
\* array of no known shape, the icon grid-2x2 is exported as Grid2X2 and
\* a-arrow-down as AArrowDown.
StandardShape(children) == JsArray(<<JsString("svg"), [xmlns |-> "svg"], JsArray(children)>>)

Child(tag, attrs) == JsArray(<<JsString(tag), attrs>>)

LucideIcons ==
    [k \in {<<"F", "i", "l", "e">>,
            <<"F", "i", "l", "e", "T", "e", "x", "t">>,
            <<"S", "t", "a", "r">>,
            <<"P", "e", "n", "c", "i", "l">>,
            <<"C", "i", "r", "c", "l", "e">>,
            <<"S", "q", "u", "a", "r", "e">>,
            <<"G", "r", "i", "d", "2", "X", "2">>,
            <<"A", "A", "r", "r", "o", "w", "D", "o", "w", "n">>} |->
        CASE k = <<"F", "i", "l", "e">> ->
                 StandardShape(<<Child("path", [d |-> "M15 2H6a2 2 0 0 0-2 2v16"]),
                                 Child("path", [d |-> "M14 2v4a2 2 0 0 0 2 2h4"])>>)
          [] k = <<"F", "i", "l", "e", "T", "e", "x", "t">> ->
                 StandardShape(<<Child("path", [d |-> "M15 2H6a2 2 0 0 0-2 2v16"]),
                                 Child("line", [x1 |-> "10", x2 |-> "8"])>>)
          [] k = <<"S", "t", "a", "r">> ->
                 JsArray(<<Child("polygon", [points |-> "12 2 15 9 22 9"])>>)
          [] k = <<"P", "e", "n", "c", "i", "l">> ->
                 JsArray(<<JsString("path"), [d |-> "M17 3a2.85 2.83 0 1 1 4 4"],
                           JsString("path"), [d |-> "m15 5 4 4"]>>)
          [] k = <<"C", "i", "r", "c", "l", "e">> ->
                 [typeof |-> "function", name |-> "Circle"]
          [] k = <<"S", "q", "u", "a", "r", "e">> ->
                 JsArray(<<[rect |-> "3 3 18 18"]>>)
          [] k = <<"G", "r", "i", "d", "2", "X", "2">> ->
                 StandardShape(<<Child("rect", [width |-> "18", height |-> "18"])>>)
          [] k = <<"A", "A", "r", "r", "o", "w", "D", "o", "w", "n">> ->
                 StandardShape(<<Child("path", [d |-> "M14 12h6"])>>)]

\* getLucideIcon: icons[pascalKey] || null
getLucideIcon(pascalKey) ==
    IF pascalKey \in DOMAIN LucideIcons THEN LucideIcons[pascalKey] ELSE null

(***************************************************************************)
(* The names the icon picker offers: the catalog keys that hold icon data, *)
(* converted from PascalCase to kebab-case.                                *)
(***************************************************************************)
isLowerCase(c) == \E i \in DOMAIN LowerCaseLetters : LowerCaseLetters[i] = c

isUpperCase(c) == \E i \in DOMAIN UpperCaseLetters : UpperCaseLetters[i] = c

\* c.toLowerCase() for a single character.
toLowerCase(c) ==
    IF isUpperCase(c)
    THEN LowerCaseLetters[CHOOSE i \in DOMAIN UpperCaseLetters : UpperCaseLetters[i] = c]
    ELSE c

\* key.replace(/([a-z])([A-Z])/g, "$1-$2"): matches are found left to right
\* and do not overlap.
RECURSIVE replaceLowerUpper(_)
replaceLowerUpper(str) ==
    IF Len(str) < 2 THEN str
    ELSE IF isLowerCase(str[1]) /\ isUpperCase(str[2])
    THEN <<str[1], "-", str[2]>> \o replaceLowerUpper(SubSeq(str, 3, Len(str)))
    ELSE <<str[1]>> \o replaceLowerUpper(Tail(str))

\* The last index of the run of upper-case letters that starts at str[1].
upperRunEnd(str) ==
    CHOOSE e \in DOMAIN str :
        /\ \A h \in 1..e : isUpperCase(str[h])
        /\ e = Len(str) \/ ~isUpperCase(str[e + 1])

\* .replace(/([A-Z]+)([A-Z][a-z])/g, "$1-$2"): the greedy [A-Z]+ gives back
\* the last letter of the run, which must be followed by a lower-case one.
RECURSIVE replaceUpperRun(_)
replaceUpperRun(str) ==
    IF str = <<>> THEN str
    ELSE IF ~isUpperCase(str[1]) THEN <<str[1]>> \o replaceUpperRun(Tail(str))
    ELSE LET e == upperRunEnd(str)
         IN  IF e >= 2 /\ e < Len(str) /\ isLowerCase(str[e + 1])
             THEN SubSeq(str, 1, e - 1) \o <<"-", str[e], str[e + 1]>>
                      \o replaceUpperRun(SubSeq(str, e + 2, Len(str)))
             ELSE <<str[1]>> \o replaceUpperRun(Tail(str))

\* const kebabCase = key.replace(...).replace(...).toLowerCase()
kebabCase(key) ==
    LET hyphenated == replaceUpperRun(replaceLowerUpper(key))
    IN  [i \in DOMAIN hyphenated |-> toLowerCase(hyphenated[i])]

excludedKeys ==
    {<<"c", "r", "e", "a", "t", "e", "E", "l", "e", "m", "e", "n", "t">>,
     <<"i", "c", "o", "n", "s">>,
     <<"I", "c", "o", "n">>,
     <<"d", "e", "f", "a", "u", "l", "t">>,
     <<"l", "u", "c", "i", "d", "e", "R", "e", "a", "c", "t", "N", "a", "t", "i", "v", "e">>,
     <<"t", "o", "E", "l", "e", "m", "e", "n", "t">>,
     <<"c", "r", "e", "a", "t", "e", "I", "c", "o", "n", "s">>,
     <<"d", "e", "f", "a", "u", "l", "t", "P", "r", "o", "p", "s">>,
     <<"I", "c", "o", "n", "N", "o", "d", "e">>,
     <<"I", "c", "o", "n", "P", "r", "o", "p", "s">>}

\* The keys that pass the filters of getAllAvailableIcons.
iconKeys ==
    {key \in DOMAIN LucideIcons :
        /\ key \notin excludedKeys
        /\ key[1] # "_"
        /\ isArray(LucideIcons[key])
        /\ Len(LucideIcons[key].items) > 0}

\* this.iconMap: kebab-case name to catalog key.  No two keys of the
\* catalog above have the same kebab-case name.
iconMap ==
    [kebab \in {kebabCase(key) : key \in iconKeys} |->
        CHOOSE key \in iconKeys : kebabCase(key) = kebab]

\* this.allIcons, as the names a mapping stores.
allIcons == {n \in IconNames : Spelling[n] \in DOMAIN iconMap}

(***************************************************************************)
(* Drawing an icon: createIconElement of the plugin and toDOM of the       *)
(* CodeMirror widget.  An element is a record; a container's children are  *)
(* a sequence.  An operator that models a function with a try block        *)
(* returns the element together with whether an exception left it.         *)
(***************************************************************************)
\* document.createElementNS(svg, tagName) with the attributes the code copies:
\* for a path the ones it names, for every other tag all of them.
svgElement(tagName, attrs, pathAttrs) ==
    [tag   |-> tagName.value,
     attrs |-> IF tagName.value = "path"
               THEN [k \in DOMAIN attrs \cap pathAttrs |-> attrs[k]]
               ELSE attrs]

createSvgElement(svgChildren, tagName, attrs, pathAttrs) ==
    IF ~Truthy(tagName) \/ ~Truthy(attrs)
    THEN svgChildren
    ELSE Append(svgChildren, svgElement(tagName, attrs, pathAttrs))

\* children.forEach(child => if (Array.isArray(child) && child.length >= 2) ...)
RECURSIVE forEachChild(_, _)
forEachChild(svgChildren, list) ==
    IF list = <<>> THEN svgChildren
    ELSE LET child == list[1]
             next  == IF isArray(child) /\ Len(child.items) >= 2
                      THEN createSvgElement(svgChildren, child.items[1],
                                            child.items[2], {"d", "fill"})
                      ELSE svgChildren
         IN  forEachChild(next, Tail(list))

\* for (let i = 0; i < Icon.length; i += 2) ...
RECURSIVE forEachPair(_, _, _)
forEachPair(svgChildren, items, i) ==
    IF i > Len(items) THEN svgChildren
    ELSE LET tagName == items[i]
             attrs   == IF i + 1 <= Len(items) THEN items[i + 1] ELSE undefined
             next    == IF ~Truthy(tagName) \/ ~Truthy(attrs)
                        THEN svgChildren
                        ELSE createSvgElement(svgChildren, tagName, attrs, {"d", "fill"})
         IN  forEachPair(next, items, i + 2)

svg(size, stroke, svgChildren) ==
    [tag |-> "svg", width |-> size, height |-> size, stroke |-> stroke,
     children |-> svgChildren]

DefaultGlyph ==
    <<[tag |-> "path",
       attrs |-> [d |-> "M14 2H6a2 2 0 0 0-2 2v16a2 2 0 0 0 2 2h12a2 2 0 0 0 2-2V8z"]],
      [tag |-> "path", attrs |-> [d |-> "M14 2v6h6"]]>>

createDefaultIcon(s) == svg(s.iconSize, s.iconColor, DefaultGlyph)

\* The try block of createIconElement: the children of the svg it builds,
\* or that it threw.
tryIcon(iconName) ==
    LET Threw    == [threw |-> TRUE, children |-> <<>>]
        Built(c) == IF c = <<>> THEN Threw ELSE [threw |-> FALSE, children |-> c]
    IN  IF typeof(iconName) # "string" THEN Threw
        ELSE LET Icon == getLucideIcon(toPascalCase(Spelling[iconName.value]))
             IN  IF ~Truthy(Icon) THEN Threw
                 ELSE IF ~isArray(Icon) THEN Threw
                 ELSE IF /\ Len(Icon.items) = 3
                         /\ Icon.items[1] = JsString("svg")
                         /\ typeof(Icon.items[2]) = "object"
                         /\ isArray(Icon.items[3])
                      THEN Built(forEachChild(<<>>, Icon.items[3].items))
                 ELSE IF Len(Icon.items) > 0 /\ isArray(Icon.items[1])
                      THEN Built(forEachChild(<<>>, Icon.items))
                 ELSE IF Len(Icon.items) >= 2 /\ typeof(Icon.items[1]) = "string"
                      THEN Built(forEachPair(<<>>, Icon.items, 1))
                 ELSE Threw

positionClass(s) ==
    IF s.iconPosition = "before" THEN "link-icon-before" ELSE "link-icon-after"

iconContainer(classes, children) ==
    [kind |-> "icon", classes |-> classes, linkId |-> 0, children |-> children]

createIconElement_NoCatch(iconName, color, s) ==
    LET try == tryIcon(iconName)
        stroke == IF color = "" THEN s.iconColor ELSE color
    IN  [threw   |-> try.threw,
         element |-> iconContainer({"link-icon", positionClass(s)},
                         IF try.threw THEN <<>>
                         ELSE <<svg(s.iconSize, stroke, try.children)>>)]

createIconElement(iconName, color, s) ==
    LET try == tryIcon(iconName)
        stroke == IF color = "" THEN s.iconColor ELSE color
    IN  [threw   |-> FALSE,
         element |-> iconContainer({"link-icon", positionClass(s)},
                         IF try.threw THEN <<createDefaultIcon(s)>>
                         ELSE <<svg(s.iconSize, stroke, try.children)>>)]

\* new LinkIconWidget(iconName, color, size)
LinkIconWidget(iconName, color, size) ==
    [iconName |-> iconName, color |-> color, size |-> size]

\* children.forEach of toDOM, which also checks the types of tag and attrs.
RECURSIVE widgetForEachChild(_, _)
widgetForEachChild(svgChildren, list) ==
    IF list = <<>> THEN svgChildren
    ELSE LET child == list[1]
             next  == IF /\ isArray(child) /\ Len(child.items) >= 2
                         /\ typeof(child.items[1]) = "string"
                         /\ Truthy(child.items[2])
                         /\ typeof(child.items[2]) = "object"
                      THEN createSvgElement(svgChildren, child.items[1],
                                            child.items[2], {"d", "fill", "stroke"})
                      ELSE svgChildren
         IN  widgetForEachChild(next, Tail(list))

\* LinkIconWidget.toDOM
toDOM(widget) ==
    LET classes == {"link-icon", "link-icon-widget"}
        empty   == [threw |-> FALSE, element |-> iconContainer(classes, <<>>)]
    IN  IF typeof(widget.iconName) # "string" THEN empty
        ELSE LET Icon == getLucideIcon(widgetToPascalCase(Spelling[widget.iconName.value]))
                 drawn == IF /\ isArray(Icon) /\ Len(Icon.items) = 3
                             /\ Icon.items[1] = JsString("svg")
                             /\ typeof(Icon.items[2]) = "object"
                             /\ isArray(Icon.items[3])
                          THEN widgetForEachChild(<<>>, Icon.items[3].items)
                          ELSE <<>>
             IN  IF ~Truthy(Icon) \/ drawn = <<>> THEN empty
                 ELSE [threw   |-> FALSE,
                       element |-> iconContainer(classes,
                                       <<svg(widget.size, widget.color, drawn)>>)]

(***************************************************************************)
(* The rendered note.  dom is the sequence of children of the element      *)
(* that holds the links: link nodes, the text between them, and the icon   *)
(* elements the plugin inserts.  targets[i] is what link i resolves to:    *)
(* null, or a file with the path of its parent folder.  The same links     *)
(* are the wiki-links of the editor's document, at the offsets of          *)
(* DocLinks.                                                               *)
(***************************************************************************)
MaxLinks == 2

LinkIds == 1..MaxLinks

linkNode(i) == [kind |-> "link", id |-> i, linkId |-> 0, processed |-> FALSE]

textNode == [kind |-> "text"]

\* link, text, link, text, ...
RECURSIVE renderedNote(_)
renderedNote(n) ==
    IF n = 0 THEN <<>> ELSE renderedNote(n - 1) \o <<linkNode(n), textNode>>

\* [[..]] occupies eight characters and is followed by two of text.
DocLinks == [i \in LinkIds |-> [start |-> 10 * (i - 1), end |-> 10 * (i - 1) + 8]]

TFile(parentPath) == [parentPath |-> parentPath]

\* The vault's root folder has the path "/".
LinkTargets == {null} \cup {TFile(p) : p \in {<<Slash>>} \cup VaultFolders}

indexOfLink(d, i) == CHOOSE j \in DOMAIN d : d[j].kind = "link" /\ d[j].id = i

\* iconMapping.icon
iconOf(iconMapping) ==
    IF "icon" \in DOMAIN iconMapping THEN JsString(iconMapping.icon) ELSE undefined

\* iconMapping.color || this.settings.iconColor
colorOf(iconMapping, s) ==
    IF "color" \in DOMAIN iconMapping /\ iconMapping.color # ""
    THEN iconMapping.color
    ELSE s.iconColor

insertBefore(d, node, j) == SubSeq(d, 1, j - 1) \o <<node>> \o SubSeq(d, j, Len(d))

\* The position the icon is inserted at, next to the link at index j.
insertionIndex_AlwaysBefore(s, j) == j

insertionIndex(s, j) == IF s.iconPosition = "before" THEN j ELSE j + 1

\* The body of linksToProcess.forEach without its two guards: a link that
\* carries data-link-icon-processed is processed again, and an icon that
\* carries the link's id does not stop the insertion.
processLink_NoChecks(d, s, t, i) ==
    LET j    == indexOfLink(d, i)
        same == [dom |-> d, threw |-> FALSE]
    IN  IF ~Truthy(t[i]) THEN same
        ELSE LET iconMapping == findIconForFolder(t[i].parentPath, s.folderIconMap)
             IN  IF ~Truthy(iconMapping) THEN same
                 ELSE LET linkId == IF d[j].linkId # 0 THEN d[j].linkId ELSE i
                          d1 == [d EXCEPT ![j].linkId = linkId]
                          d2 == [d1 EXCEPT ![j].processed = TRUE]
                          created == createIconElement(iconOf(iconMapping),
                                         colorOf(iconMapping, s), s)
                          iconElement == [created.element EXCEPT !.linkId = linkId]
                      IN  IF created.threw
                          THEN [dom |-> d1, threw |-> TRUE]
                          ELSE [dom |-> insertBefore(d2, iconElement, insertionIndex(s, j)),
                                threw |-> FALSE]

\* The body of linksToProcess.forEach for link i.
processLink(d, s, t, i) ==
    LET j    == indexOfLink(d, i)
        same == [dom |-> d, threw |-> FALSE]
    IN  IF d[j].processed THEN same
        ELSE IF ~Truthy(t[i]) THEN same
        ELSE LET iconMapping == findIconForFolder(t[i].parentPath, s.folderIconMap)
             IN  IF ~Truthy(iconMapping) THEN same
                 ELSE LET linkId == IF d[j].linkId # 0 THEN d[j].linkId ELSE i
                          d1 == [d EXCEPT ![j].linkId = linkId]
                          d2 == [d1 EXCEPT ![j].processed = TRUE]
                      IN  IF \E h \in DOMAIN d1 : d1[h].kind = "icon" /\ d1[h].linkId = linkId
                          THEN [dom |-> d2, threw |-> FALSE]
                          ELSE LET created == createIconElement(iconOf(iconMapping),
                                                  colorOf(iconMapping, s), s)
                                   iconElement == [created.element EXCEPT !.linkId = linkId]
                               IN  IF created.threw
                                   THEN [dom |-> d1, threw |-> TRUE]
                                   ELSE [dom |-> insertBefore(d2, iconElement, insertionIndex(s, j)),
                                         threw |-> FALSE]

\* linksToProcess.forEach: the links in document order; an exception ends
\* the pass.
RECURSIVE forEachLink(_, _, _, _)
forEachLink(pass, s, t, ids) ==
    IF ids = <<>> \/ pass.threw THEN pass
    ELSE forEachLink(processLink(pass.dom, s, t, ids[1]), s, t, Tail(ids))

linksToProcess(d) ==
    LET links == SelectSeq(d, LAMBDA n : n.kind = "link")
    IN  [k \in DOMAIN links |-> links[k].id]

processLinksInElement(d, s, t) ==
    forEachLink([dom |-> d, threw |-> FALSE], s, t, linksToProcess(d))

clearExistingIcons(d) ==
    LET kept == SelectSeq(d, LAMBDA n : n.kind # "icon")
    IN  [k \in DOMAIN kept |->
            IF kept[k].kind = "link" /\ kept[k].processed
            THEN [kept[k] EXCEPT !.processed = FALSE, !.linkId = 0]
            ELSE kept[k]]

\* processAllLinks on the open note, if there is one.
processAllLinks(d, s, t) == processLinksInElement(clearExistingIcons(d), s, t)

\* The decorations the state field computes for the document.
RECURSIVE newDecorations(_, _, _)
newDecorations(s, t, ids) ==
    IF ids = <<>> THEN <<>>
    ELSE LET i    == ids[1]
             rest == newDecorations(s, t, Tail(ids))
         IN  IF ~Truthy(t[i]) THEN rest
             ELSE LET iconMapping == findIconForFolder(t[i].parentPath, s.folderIconMap)
                      widget == LinkIconWidget(iconOf(iconMapping),
                                               colorOf(iconMapping, s), s.iconSize)
                  IN  IF ~Truthy(iconMapping) THEN rest
                      ELSE IF s.iconPosition = "before"
                      THEN <<[widget |-> widget, side |-> -1, at |-> DocLinks[i].start]>> \o rest
                      ELSE <<[widget |-> widget, side |-> 1, at |-> DocLinks[i].end]>> \o rest

(***************************************************************************)
(* The settings tab.  renderMappings builds one row per entry of the       *)
(* table, and the handlers of a row keep the mapping of the entry as it    *)
(* was when the row was built.  Every handler ends by saving and running   *)
(* processAllLinks.                                                        *)
(***************************************************************************)
\* for (const [folderPath, mapping] of Object.entries(folderIconMap))
renderMappings(s) == [folderPath \in DOMAIN s.folderIconMap |-> s.folderIconMap[folderPath]]

\* await this.plugin.saveSettings(); this.plugin.processAllLinks();
SaveAndProcessAllLinks ==
    /\ persisted' = settings'
    /\ \E pass \in {processAllLinks(dom, settings', targets)} :
           /\ dom' = pass.dom
           /\ raised' = (raised \/ pass.threw)
    /\ UNCHANGED <<targets, decorations>>

\* The onSelect callback of the picker opened by "Add mapping".
onSelectAdd(folderPath, iconName) ==
    /\ settings' = [settings EXCEPT
                      !.folderIconMap = Put(@, folderPath, [icon |-> iconName])]
    /\ rows' = renderMappings(settings')
    /\ SaveAndProcessAllLinks

\* { icon: newIconName, ...(existingColor ? { color: existingColor } : {}) }
withIcon_DropsColor(entry, newIconName) == [icon |-> newIconName]

withIcon(entry, newIconName) ==
    IF "color" \in DOMAIN entry /\ entry.color # ""
    THEN [icon |-> newIconName, color |-> entry.color]
    ELSE [icon |-> newIconName]

\* The onSelect callback of the picker opened by the icon button of the row
\* of folderPath.  The row is not rebuilt.
onSelectChange(folderPath, newIconName) ==
    /\ settings' = [settings EXCEPT
                      !.folderIconMap = Put(@, folderPath,
                                            withIcon(settings.folderIconMap[folderPath],
                                                     newIconName))]
    /\ SaveAndProcessAllLinks
    /\ UNCHANGED rows

\* { ...mapping, color: value }
withColor(mapping, value) == [icon |-> mapping.icon, color |-> value]

\* const { color, ...mappingWithoutColor } = entry
withoutColor(entry) == [icon |-> entry.icon]

\* What can be typed into the colour field of a row, and value.trim().
TextInputs == {"", " ", "#ff0000", " #00ff00"}

trim(value) ==
    CASE value = " " -> ""
      [] value = " #00ff00" -> "#00ff00"
      [] OTHER -> value

---------------------------------------------------------------------------
(* Initial state: the plugin is about to run onload; data.json is absent,  *)
(* or holds saved settings whose table is in the old, the new or a mixed   *)
(* format over the folders of the vault.                                   *)

FolderChoices == {<<>>} \cup VaultFolders

\* Table values found in data.json: bare icon names written by the old
\* format, records written by the new one.
PersistedMappings == {[icon |-> "file"], [icon |-> "star", color |-> "#ff0000"]}

PersistedValues == {JsString(i) : i \in OldFormatIcons} \cup PersistedMappings

PersistedTables ==
    UNION {[keys -> PersistedValues] : keys \in SUBSET FolderChoices}

PersistedData ==
    {null} \cup {[DEFAULT_SETTINGS EXCEPT !.folderIconMap = t] : t \in PersistedTables}

\* The fields of a plugin instance as constructed.  A timer field holds
\* the id setTimeout or setInterval returned, a positive number, or 0 for
\* null.
NewPlugin ==
    [observer |-> "null", mutationTimeout |-> 0, lastProcessTime |-> 0,
     periodicCheckInterval |-> 0]

\* No icon picker is open.  An open one knows the callback it was given
\* (which handler, for which folder), the icon that is selected, and the
\* names it has passed to the callback.
NoModal ==
    [open |-> FALSE, purpose |-> "none", folderPath |-> <<>>,
     selectedIcon |-> null, onSelectCalls |-> <<>>]

\* No handler is suspended, no picker is open, nothing is scheduled.
Idle ==
    /\ pending = <<>>
    /\ modal = NoModal
    /\ plugin = NewPlugin
    /\ now = 0
    /\ timers = {}

\* No note is open (getLeavesOfType("markdown") is empty) and the settings
\* tab has not been displayed.
NoViews ==
    /\ targets = <<>>
    /\ dom = <<>>
    /\ decorations = <<>>
    /\ raised = FALSE
    /\ rows = <<>>
    /\ Idle

Init ==
    /\ pc = "onload"
    /\ persisted \in PersistedData
    /\ settings = undefined
    /\ calls = <<>>
    /\ NoViews

---------------------------------------------------------------------------
(* Actions.                                                                *)

\* onload: await this.loadSettings(), after which the handlers are registered.
LoadSettings ==
    /\ pc = "onload"
    /\ pc' = "loaded"
    /\ settings' = loadedSettings(persisted)
    /\ persisted' = IF loadSaves(persisted) THEN settings' ELSE persisted
    /\ UNCHANGED <<calls, renderVars, tabVars, asyncVars>>

\* A rendering pass looks up the folder of one more link; the links of one
\* pass point into the same folder.
Find(folderPath) ==
    /\ pc = "loaded"
    /\ Len(calls) < MaxCalls
    /\ IF calls = <<>> THEN TRUE ELSE calls[1].folderPath = folderPath
    /\ calls' = Append(calls,
                       [folderPath |-> folderPath,
                        result |-> findIconForFolder(folderPath, settings.folderIconMap)])
    /\ settings' = findIconForFolderSettings(folderPath, settings)
    /\ UNCHANGED <<pc, persisted, renderVars, tabVars, asyncVars>>

\* The rendering pass returns to the event loop.
PassDone ==
    /\ calls # <<>>
    /\ calls' = <<>>
    /\ UNCHANGED <<pc, persisted, settings, renderVars, tabVars, asyncVars>>

\* The settings tab is opened: display() builds the rows.
Display ==
    /\ pc = "loaded"
    /\ calls = <<>>
    /\ rows' = renderMappings(settings)
    /\ UNCHANGED <<pc, persisted, settings, calls, renderVars, asyncVars>>

\* Settings tab, "Add mapping": folder chosen, then icon chosen.
AddMapping(folderPath, iconName) ==
    /\ pc = "loaded"
    /\ calls = <<>>
    /\ onSelectAdd(folderPath, iconName)
    /\ UNCHANGED <<pc, calls, asyncVars>>

\* Settings tab, the trash button of the row of folderPath.
DeleteMapping(folderPath) ==
    /\ pc = "loaded"
    /\ calls = <<>>
    /\ folderPath \in DOMAIN rows
    /\ settings' = [settings EXCEPT !.folderIconMap = Delete(@, folderPath)]
    /\ rows' = renderMappings(settings')
    /\ SaveAndProcessAllLinks
    /\ UNCHANGED <<pc, calls, asyncVars>>

Next ==
    \/ LoadSettings
    \/ \E folderPath \in Paths : Find(folderPath)
    \/ PassDone
    \/ Display
    \/ \E folderPath \in FolderChoices, iconName \in PickerIcons :
          AddMapping(folderPath, iconName)
    \/ \E folderPath \in FolderChoices : DeleteMapping(folderPath)

Spec == Init /\ [][Next]_vars

---------------------------------------------------------------------------
(* The scenario of the specification: the table                            *)
(*   "" -> file, Projects -> folder, Projects/Active -> star #ff0000       *)
(* is what data.json holds, and lookups are made for the folders of a      *)
(* vault built from the names of the scenario.                             *)

\* Deepest folder of the scenario vault, in segments.
MaxScenarioSegs == 3

ScenarioNames == {"Projects", "Active", "Sub", "Archive", "Other"}

ScenarioTable ==
    (<<>> :> [icon |-> "file"])
        @@ (<<"Projects">> :> [icon |-> "folder"])
        @@ (<<"Projects", "/", "Active">> :> [icon |-> "star", color |-> "#ff0000"])

\* The path of the folder reached by the names of a sequence, as
\* TFolder.path gives it.
RECURSIVE FolderPath(_)
FolderPath(names) ==
    IF names = <<>> THEN <<>>
    ELSE IF Len(names) = 1 THEN <<names[1]>>
    ELSE FolderPath(SubSeq(names, 1, Len(names) - 1)) \o <<"/", names[Len(names)]>>

ScenarioPaths ==
    {FolderPath(names) : names \in UNION {[1..n -> ScenarioNames] :
                                           n \in 0..MaxScenarioSegs}}

InitScenario ==
    /\ pc = "onload"
    /\ persisted = [DEFAULT_SETTINGS EXCEPT !.folderIconMap = ScenarioTable]
    /\ settings = undefined
    /\ calls = <<>>
    /\ NoViews

NextScenario ==
    \/ LoadSettings
    \/ \E folderPath \in ScenarioPaths : Find(folderPath)
    \/ PassDone

SpecScenario == InitScenario /\ [][NextScenario]_vars

---------------------------------------------------------------------------
(***************************************************************************)
(* Rendering a note: a note with MaxLinks links is open when the plugin    *)
(* loads, in reading view and in the editor.                               *)
(***************************************************************************)
RenderMappings ==
    {[icon |-> "file"], [icon |-> "star", color |-> "#ff0000"],
     [icon |-> "pencil"], [icon |-> "file-text", color |-> "#00ff00"],
     [icon |-> "circle"], [icon |-> "square", color |-> "#ff0000"],
     [icon |-> "grid2x2", color |-> "#ff0000"]}

RenderTables ==
    UNION {[D -> RenderMappings] : D \in SUBSET {<<>>, <<"a">>}}

RenderData ==
    {[DEFAULT_SETTINGS EXCEPT !.folderIconMap = t, !.iconPosition = p] :
        t \in RenderTables, p \in {"before", "after"}}

InitRender ==
    /\ pc = "onload"
    /\ persisted \in RenderData
    /\ settings = undefined
    /\ calls = <<>>
    /\ targets \in [LinkIds -> LinkTargets]
    /\ dom = renderedNote(MaxLinks)
    /\ decorations = <<>>
    /\ raised = FALSE
    /\ rows = <<>>
    /\ Idle

\* The host renders the markdown of the note afresh.
MarkdownRendered ==
    /\ pc = "loaded"
    /\ dom # renderedNote(MaxLinks)
    /\ dom' = renderedNote(MaxLinks)
    /\ UNCHANGED <<pc, persisted, settings, calls, targets, decorations, raised, tabVars, asyncVars>>

\* processAllLinks, and the first timeout of the markdown post-processor.
ProcessAllLinks ==
    /\ pc = "loaded"
    /\ \E pass \in {processAllLinks(dom, settings, targets)} :
           /\ dom' = pass.dom
           /\ raised' = (raised \/ pass.threw)
    /\ UNCHANGED <<pc, persisted, settings, calls, targets, decorations, tabVars, asyncVars>>

\* The periodic check, and the later timeouts of the post-processor.
ProcessLinksInElement ==
    /\ pc = "loaded"
    /\ \E pass \in {processLinksInElement(dom, settings, targets)} :
           /\ dom' = pass.dom
           /\ raised' = (raised \/ pass.threw)
    /\ UNCHANGED <<pc, persisted, settings, calls, targets, decorations, tabVars, asyncVars>>

\* The Icon position dropdown of the settings tab.
SetIconPosition(value) ==
    /\ pc = "loaded"
    /\ settings' = [settings EXCEPT !.iconPosition = value]
    /\ SaveAndProcessAllLinks
    /\ UNCHANGED <<pc, calls, tabVars, asyncVars>>

\* update of the state field on a transaction of the editor.
EditorUpdate ==
    /\ pc = "loaded"
    /\ decorations' = newDecorations(settings, targets, [i \in LinkIds |-> i])
    /\ UNCHANGED <<pc, persisted, settings, calls, targets, dom, raised, tabVars, asyncVars>>

NextRender ==
    \/ LoadSettings
    \/ MarkdownRendered
    \/ ProcessAllLinks
    \/ ProcessLinksInElement
    \/ \E value \in {"before", "after"} : SetIconPosition(value)
    \/ EditorUpdate

SpecRender == InitRender /\ [][NextRender]_vars

---------------------------------------------------------------------------
(***************************************************************************)
(* Editing the rows of the settings tab.  No note is open.                 *)
(***************************************************************************)
TabFolders == {<<>>, <<"a">>}

TabIcons == {"file", "star"}

TabMappings == {[icon |-> "file"], [icon |-> "star", color |-> "#ff0000"]}

TabData ==
    {[DEFAULT_SETTINGS EXCEPT !.folderIconMap = t] :
        t \in UNION {[D -> TabMappings] : D \in SUBSET TabFolders}}

InitTab ==
    /\ pc = "onload"
    /\ persisted \in TabData
    /\ settings = undefined
    /\ calls = <<>>
    /\ NoViews

\* The icon button of the row of folderPath: an icon is selected in the
\* picker.  The row is not rebuilt.
IconSelected(folderPath, newIconName) ==
    /\ pc = "loaded"
    /\ calls = <<>>
    /\ folderPath \in DOMAIN rows
    /\ onSelectChange(folderPath, newIconName)
    /\ UNCHANGED <<pc, calls, asyncVars>>

\* The colour text field of the row of folderPath changes to value.
ColorChanged(folderPath, value) ==
    /\ pc = "loaded"
    /\ calls = <<>>
    /\ folderPath \in DOMAIN rows
    /\ settings' = [settings EXCEPT
                      !.folderIconMap = Put(@, folderPath,
                                            IF trim(value) # ""
                                            THEN withColor(rows[folderPath], trim(value))
                                            ELSE withoutColor(settings.folderIconMap[folderPath]))]
    /\ SaveAndProcessAllLinks
    /\ UNCHANGED <<pc, calls, tabVars, asyncVars>>

\* The colour picker of the row of folderPath changes to hexColor.
ColorPicked(folderPath, hexColor) ==
    /\ pc = "loaded"
    /\ calls = <<>>
    /\ folderPath \in DOMAIN rows
    /\ settings' = [settings EXCEPT
                      !.folderIconMap = Put(@, folderPath,
                                            withColor(rows[folderPath], hexColor))]
    /\ SaveAndProcessAllLinks
    /\ UNCHANGED <<pc, calls, tabVars, asyncVars>>

NextTab ==
    \/ LoadSettings
    \/ Display
    \/ \E folderPath \in TabFolders, iconName \in TabIcons :
          AddMapping(folderPath, iconName)
    \/ \E folderPath \in TabFolders : DeleteMapping(folderPath)
    \/ \E folderPath \in TabFolders, newIconName \in TabIcons :
          IconSelected(folderPath, newIconName)
    \/ \E folderPath \in TabFolders, value \in TextInputs :
          ColorChanged(folderPath, value)
    \/ \E folderPath \in TabFolders, hexColor \in Colors :
          ColorPicked(folderPath, hexColor)

SpecTab == InitTab /\ [][NextTab]_vars

---------------------------------------------------------------------------
(* Vocabulary of the properties.                                           *)

\* The non-empty segments of a path: its maximal runs of tokens other than
\* "/", from left to right.
RECURSIVE Segments(_)
Segments(P) ==
    IF P = <<>> THEN <<>>
    ELSE LET before == Segments(SubSeq(P, 1, Len(P) - 1))
             t == P[Len(P)]
         IN  IF t = "/" THEN before
             ELSE IF Len(P) > 1 /\ P[Len(P) - 1] # "/"
             THEN [before EXCEPT ![Len(before)] = Append(@, t)]
             ELSE Append(before, <<t>>)

\* Segments written as one path with single slashes between them.
RECURSIVE Joined(_)
Joined(segs) ==
    IF segs = <<>> THEN <<>>
    ELSE IF Len(segs) = 1 THEN segs[1]
    ELSE Joined(SubSeq(segs, 1, Len(segs) - 1)) \o <<"/">> \o segs[Len(segs)]

\* The first k segments of P joined by "/".
SegmentPrefix(P, k) == Joined(SubSeq(Segments(P), 1, k))

\* The k for which the first k segments of P are a key of T.
MatchingPrefixes(P, T) ==
    {k \in 1..Len(Segments(P)) : SegmentPrefix(P, k) \in DOMAIN T}

Largest(S) == CHOOSE k \in S : \A h \in S : h <= k

\* The table the calls of the pass in progress were made against.
Table == settings.folderIconMap

CallIndex == 1..Len(calls)

---------------------------------------------------------------------------
(* Properties.                                                             *)

\* C1: a lookup for a non-empty folder path that is a key of the table
\* returns the entry stored under that key, whatever shorter segment
\* prefixes of the path and whether or not the root key "" are also keys.
C1_ExactMatchWins ==
    \A i \in CallIndex :
        LET P == calls[i].folderPath
        IN  (P # <<>> /\ P \in DOMAIN Table) => calls[i].result = Table[P]

\* C1 witness: an exact match was returned while a shorter segment prefix
\* and the root key hold other entries.
C1_Witness ==
    \E i \in CallIndex :
        LET P == calls[i].folderPath
        IN  /\ P = <<"a", "/", "a">>
            /\ {P, <<"a">>, <<>>} \subseteq DOMAIN Table
            /\ Table[P] # Table[<<"a">>]
            /\ Table[P] # Table[<<>>]
            /\ calls[i].result = Table[P]

\* C2: when the path itself is no key but some segment prefix of it is, the
\* lookup returns the entry of the longest segment prefix that is a key.
C2_LongestPrefixWins ==
    \A i \in CallIndex :
        LET P == calls[i].folderPath
            K == MatchingPrefixes(P, Table)
        IN  (P \notin DOMAIN Table /\ K # {})
                => calls[i].result = Table[SegmentPrefix(P, Largest(K))]

\* C2 witness: two segment prefixes of the path are keys with different
\* entries, the path is not, and the entry of the longer one was returned.
C2_Witness ==
    \E i \in CallIndex :
        LET P == calls[i].folderPath
            K == MatchingPrefixes(P, Table)
        IN  /\ P \notin DOMAIN Table
            /\ K = {1, 2}
            /\ Table[SegmentPrefix(P, 1)] # Table[SegmentPrefix(P, 2)]
            /\ calls[i].result = Table[SegmentPrefix(P, 2)]

\* C3 (the claim as stated): when neither the path nor any segment prefix of
\* it is a key and the root key "" is, the lookup returns the root entry.
C3_RootFallback ==
    \A i \in CallIndex :
        LET P == calls[i].folderPath
        IN  (/\ P \notin DOMAIN Table
             /\ MatchingPrefixes(P, Table) = {}
             /\ <<>> \in DOMAIN Table)
                => calls[i].result = Table[<<>>]

\* C4 (the claim as stated): a lookup in an empty table returns null.
C4_EmptyTableNoMatch ==
    \A i \in CallIndex :
        DOMAIN Table = {} => calls[i].result = null

\* C5: with the scenario table, Projects/Active/Sub gets the star entry,
\* Projects/Archive the folder entry and Other the file entry.
C5_Scenario ==
    \A i \in CallIndex :
        Table = ScenarioTable =>
            LET P == calls[i].folderPath
                r == calls[i].result
            IN  /\ P = <<"Projects", "/", "Active", "/", "Sub">>
                    => r = [icon |-> "star", color |-> "#ff0000"]
                /\ P = <<"Projects", "/", "Archive">> => r = [icon |-> "folder"]
                /\ P = <<"Other">> => r = [icon |-> "file"]

\* C5 witness: the lookup for Projects/Archive was made against the
\* scenario table.
C5_Witness ==
    /\ calls # <<>>
    /\ Table = ScenarioTable
    /\ calls[1].folderPath = <<"Projects", "/", "Archive">>
    /\ calls[1].result = [icon |-> "folder"]

\* C6: a lookup for the root path "" returns the entry under the key "" when
\* the table has that key, whatever its other keys, and null when it has not.
C6_RootPath ==
    \A i \in CallIndex :
        calls[i].folderPath = <<>> =>
            calls[i].result = IF <<>> \in DOMAIN Table THEN Table[<<>>] ELSE null

\* C6 witness: the root path was looked up in a table that has the root key
\* and other keys with other entries.
C6_Witness ==
    \E i \in CallIndex :
        /\ calls[i].folderPath = <<>>
        /\ <<>> \in DOMAIN Table
        /\ \E k \in DOMAIN Table : k # <<>> /\ Table[k] # Table[<<>>]
        /\ calls[i].result = Table[<<>>]

\* C7: loadSettings leaves a table with the keys of the persisted one, in
\* which a bare string s has become {icon: s} and every record is the
\* persisted record.
C7_MigrationWraps ==
    [][(pc = "onload" /\ pc' = "loaded" /\ persisted # null) =>
          LET old == persisted.folderIconMap
              new == settings'.folderIconMap
          IN  /\ DOMAIN new = DOMAIN old
              /\ \A k \in DOMAIN old :
                     new[k] = IF typeof(old[k]) = "string"
                              THEN [icon |-> old[k].value]
                              ELSE old[k]]_vars

\* C7 witness: settings were loaded from a table of mixed format; the bare
\* string pencil is now a record and a sibling record with a colour is kept.
C7_Witness ==
    /\ pc = "loaded"
    /\ \E k, h \in DOMAIN Table :
          /\ Table[k] = [icon |-> "pencil"]
          /\ Table[h] = [icon |-> "star", color |-> "#ff0000"]

\* C8: a findIconForFolder call leaves the settings, and so the mapping
\* table, as they were.
C8_FindLeavesTable ==
    [][Len(calls') > Len(calls) => settings' = settings]_vars

\* C8 witness: two lookups were made against a table with entries and
\* returned one of them.
C8_Witness ==
    /\ Len(calls) = 2
    /\ DOMAIN Table # {}
    /\ \E k \in DOMAIN Table : calls[2].result = Table[k]

C10_EntryOrNull ==
    \A i \in CallIndex :
        \/ calls[i].result = null
        \/ \E k \in DOMAIN Table : calls[i].result = Table[k]

\* C11: a path with a leading, trailing or doubled slash gets the result of
\* the path made of its non-empty segments joined by single slashes.
C11_MalformedPathNormalized ==
    \A i \in CallIndex :
        LET P == calls[i].folderPath
            N == Joined(Segments(P))
        IN  P # N => calls[i].result = findIconForFolder(N, Table)

\* C11 witness: /a/a was looked up and got the entry stored under a/a,
\* which differs from the entries of a and of the root.
C11_Witness ==
    \E i \in CallIndex :
        /\ calls[i].folderPath = <<"/", "a", "/", "a">>
        /\ {<<>>, <<"a">>, <<"a", "/", "a">>} \subseteq DOMAIN Table
        /\ Table[<<"a", "/", "a">>] \notin {Table[<<>>], Table[<<"a">>]}
        /\ calls[i].result = Table[<<"a", "/", "a">>]

\* The non-root keys that are the path itself or a segment prefix of it.
MatchingRealKeys(P, T) ==
    {k \in DOMAIN T :
        /\ k # <<>>
        /\ \/ k = P
           \/ \E j \in 1..Len(Segments(P)) : k = SegmentPrefix(P, j)}

\* C12: when the root key and a non-root key that is the path or a segment
\* prefix of it are both in the table, the lookup returns the entry of such
\* a non-root key; the root entry is the result only when there is none.
C12_RootRanksLast ==
    \A i \in CallIndex :
        LET P == calls[i].folderPath
            K == MatchingRealKeys(P, Table)
        IN  (<<>> \in DOMAIN Table /\ K # {})
                => \E k \in K : calls[i].result = Table[k]

\* C12 witness: the root key and a parent folder are mapped to different
\* entries and the parent's entry was returned.
C12_Witness ==
    \E i \in CallIndex :
        /\ calls[i].folderPath = <<"a", "/", "constructor">>
        /\ {<<>>, <<"a">>} \subseteq DOMAIN Table
        /\ Table[<<>>] # Table[<<"a">>]
        /\ calls[i].result = Table[<<"a">>]

\* C13: a lookup that returns a mapping returns one stored under the path
\* itself, under the first k whole segments of it, or under ""; keys that
\* are a character prefix, a sibling or a descendant do not count.
C13_WholeSegments ==
    \A i \in CallIndex :
        LET P == calls[i].folderPath
        IN  calls[i].result \in FolderIconMapping =>
                \E k \in MatchingRealKeys(P, Table) \cup ({<<>>} \cap DOMAIN Table) :
                    calls[i].result = Table[k]

\* C13 witness: aa was looked up while a (a character prefix), a/a and
\* the root are mapped, and the root entry, different from that of a, was
\* returned.
C13_Witness ==
    \E i \in CallIndex :
        /\ calls[i].folderPath = <<"a", "a">>
        /\ {<<>>, <<"a">>, <<"a", "/", "a">>} \subseteq DOMAIN Table
        /\ Table[<<"a">>] # Table[<<>>]
        /\ Table[<<"a", "/", "a">>] # Table[<<>>]
        /\ calls[i].result = Table[<<>>]

---------------------------------------------------------------------------
(* Vocabulary of the properties about the rendered note.                   *)

Loaded == pc = "loaded"

Resolved(i) == targets[i] # null

TargetFolder(i) == targets[i].parentPath

\* No key of the table applies to folder P: none is P or a prefix of P made
\* of whole segments, and there is no root key.
NoApplicableKey(P, T) == MatchingRealKeys(P, T) = {} /\ <<>> \notin DOMAIN T

LinkNodeOf(i) == dom[CHOOSE j \in DOMAIN dom : dom[j].kind = "link" /\ dom[j].id = i]

\* The .link-icon elements that carry the data-link-id of link i.
IconNodesOf(i) ==
    {j \in DOMAIN dom : /\ dom[j].kind = "icon"
                        /\ LinkNodeOf(i).linkId # 0
                        /\ dom[j].linkId = LinkNodeOf(i).linkId}

\* The widgets at the start or the end of wiki-link i.
WidgetsOf(i) ==
    {k \in DOMAIN decorations : decorations[k].at \in {DocLinks[i].start, DocLinks[i].end}}

\* The mapping the lookup finds for link i.
Matched(i) == findIconForFolder(TargetFolder(i), Table)

\* The colour the claim expects for mapping M.
ExpectedColor(M) == IF "color" \in DOMAIN M THEN M.color ELSE settings.iconColor

\* Icon names of the fixture that the catalog cannot draw: grid2x2 is not a
\* key of it, Circle is not an array and Square has no known shape.
UnknownIcons == {"grid2x2", "circle", "square"}

\* C14: when no mapping is found for a link's target folder, no .link-icon
\* element is inserted for the link, the editor has no widget for the
\* wiki-link, and no error is raised.
C14_NoMappingNoIcon ==
    Loaded =>
        \A i \in LinkIds :
            (Resolved(i) /\ NoApplicableKey(TargetFolder(i), Table)) =>
                /\ IconNodesOf(i) = {}
                /\ WidgetsOf(i) = {}
                /\ raised = FALSE

\* C15: the colour an icon is drawn with is the colour of the matched
\* mapping when it has one and the default iconColor otherwise, for the
\* icon elements of the DOM and for the widgets of the editor.
C15_IconColor ==
    Loaded =>
        \A i \in LinkIds :
            (Resolved(i) /\ Matched(i) \in FolderIconMapping) =>
                /\ \A j \in IconNodesOf(i) :
                       \A c \in DOMAIN dom[j].children :
                           dom[j].children[c].stroke = ExpectedColor(Matched(i))
                /\ \A k \in WidgetsOf(i) :
                       LET element == toDOM(decorations[k].widget).element
                       IN  \A c \in DOMAIN element.children :
                               element.children[c].stroke = ExpectedColor(Matched(i))

\* C16: whenever a pass rebuilds the DOM or the state field recomputes its
\* decorations, each icon is placed by the iconPosition setting: with
\* "before" the icon element is the sibling just before its link and the
\* widget is at the start of the wiki-link, with "after" the icon element is
\* the sibling just after its link and the widget is at its end.
C16_Placement ==
    [][/\ dom' # dom =>
              \A j \in DOMAIN dom' :
                  dom'[j].kind = "icon" =>
                      LET n == IF settings'.iconPosition = "before" THEN j + 1 ELSE j - 1
                      IN  /\ n \in DOMAIN dom'
                          /\ dom'[n].kind = "link"
                          /\ dom'[n].linkId = dom'[j].linkId
       /\ decorations' # decorations =>
              \A k \in DOMAIN decorations' :
                  \E i \in LinkIds :
                      IF settings'.iconPosition = "before"
                      THEN decorations'[k].at = DocLinks[i].start /\ decorations'[k].side = -1
                      ELSE decorations'[k].at = DocLinks[i].end /\ decorations'[k].side = 1]_vars

\* With "after", an icon element follows its link and a widget sits at the
\* end of a wiki-link.
C16_Witness ==
    /\ Loaded
    /\ settings.iconPosition = "after"
    /\ \E j \in DOMAIN dom :
           /\ j > 1
           /\ dom[j].kind = "icon"
           /\ dom[j - 1].kind = "link"
           /\ dom[j - 1].linkId = dom[j].linkId
    /\ \E k \in DOMAIN decorations : decorations[k].at = DocLinks[1].end

\* C17: an icon name the catalog cannot draw never lets an exception out:
\* every processed link has its .link-icon element, which holds the default
\* file glyph when the name is unknown, and toDOM of a widget with such a
\* name returns a .link-icon element without throwing.
C17_UnknownIconFallsBack ==
    Loaded =>
        /\ raised = FALSE
        /\ \A i \in LinkIds :
               LinkNodeOf(i).processed =>
                   /\ IconNodesOf(i) # {}
                   /\ \A j \in IconNodesOf(i) :
                          /\ "link-icon" \in dom[j].classes
                          /\ (Matched(i) \in FolderIconMapping /\ Matched(i).icon \in UnknownIcons) =>
                                 /\ Len(dom[j].children) = 1
                                 /\ dom[j].children[1].children = DefaultGlyph
        /\ \A k \in DOMAIN decorations :
               LET shown == toDOM(decorations[k].widget)
               IN  /\ shown.threw = FALSE
                   /\ "link-icon" \in shown.element.classes

\* A link mapped to an icon name that is not in the catalog has been
\* processed and carries the default glyph, and the editor holds a widget
\* for such a name.
C17_Witness ==
    /\ Loaded
    /\ \E i \in LinkIds :
           /\ Resolved(i)
           /\ Matched(i) \in FolderIconMapping
           /\ Matched(i).icon = "grid2x2"
           /\ LinkNodeOf(i).processed
           /\ \E j \in IconNodesOf(i) : dom[j].children[1].children = DefaultGlyph
           /\ WidgetsOf(i) # {}

---------------------------------------------------------------------------
(* Properties of the settings tab.                                         *)

\* C18: a step of a row's colour text field (with a non-empty value or an
\* empty one) or of its colour picker leaves the icon of the row's entry
\* unchanged, whatever edits came before.
C18_ColorKeepsIcon ==
    [][\A folderPath \in TabFolders :
           (\/ \E value \in TextInputs : ColorChanged(folderPath, value)
            \/ \E hexColor \in Colors : ColorPicked(folderPath, hexColor))
               => settings'.folderIconMap[folderPath].icon
                      = settings.folderIconMap[folderPath].icon]_vars

\* C19: selecting a new icon for a row keeps the colour stored for the
\* folder: an entry with a colour has the same colour afterwards, and an
\* entry without one still has none.
C19_IconKeepsColor ==
    [][\A folderPath \in TabFolders, newIconName \in TabIcons :
           IconSelected(folderPath, newIconName) =>
               LET before == settings.folderIconMap[folderPath]
                   after  == settings'.folderIconMap[folderPath]
               IN  /\ after.icon = newIconName
                   /\ ("color" \in DOMAIN after) = ("color" \in DOMAIN before)
                   /\ "color" \in DOMAIN before => after.color = before.color]_vars

\* The entry of a row that was built when it had no colour now has the
\* icon star and a colour: its colour was set and its icon then changed
\* without the row being rebuilt.
C19_Witness ==
    /\ Loaded
    /\ \E folderPath \in DOMAIN rows :
           /\ "color" \notin DOMAIN rows[folderPath]
           /\ rows[folderPath].icon = "file"
           /\ folderPath \in DOMAIN Table
           /\ Table[folderPath] = [icon |-> "star", color |-> "#00ff00"]

\* What the claim expects of a lookup for P in T when P is no key: the
\* entry of the longest ancestor that is a key, else the root entry, else
\* no match.
FallThrough(P, T) ==
    LET K == MatchingPrefixes(P, T)
    IN  IF K # {} THEN T[SegmentPrefix(P, Largest(K))]
        ELSE IF <<>> \in DOMAIN T THEN T[<<>>]
        ELSE null

\* C20: adding a mapping for folder F sets the entry of F to {icon} and
\* deleting it removes the key F, every entry under another key staying as
\* it was; and after F is deleted a lookup for F gives the entry of F's
\* longest remaining ancestor, else the root entry, else no match.
C20_EditsTouchOneKey ==
    [][\A F \in FolderChoices :
           /\ \A iconName \in PickerIcons :
                  AddMapping(F, iconName) =>
                      /\ DOMAIN settings'.folderIconMap = DOMAIN settings.folderIconMap \cup {F}
                      /\ settings'.folderIconMap[F] = [icon |-> iconName]
                      /\ \A k \in DOMAIN settings.folderIconMap \ {F} :
                             settings'.folderIconMap[k] = settings.folderIconMap[k]
           /\ DeleteMapping(F) =>
                  /\ DOMAIN settings'.folderIconMap = DOMAIN settings.folderIconMap \ {F}
                  /\ \A k \in DOMAIN settings'.folderIconMap :
                         settings'.folderIconMap[k] = settings.folderIconMap[k]
                  /\ findIconForFolder(F, settings'.folderIconMap)
                         = FallThrough(F, settings'.folderIconMap)]_vars

---------------------------------------------------------------------------
(***************************************************************************)
(* Loading and reloading.  data.json holds whatever an earlier version or  *)
(* an earlier run saved: nothing, all four settings, or only some of them  *)
(* (a file written before a setting existed); the table holds bare icon    *)
(* names, records, or both.  The plugin is loaded, and may be disabled and *)
(* enabled again, which loads the file anew.                               *)
(***************************************************************************)

\* data.json files: absent, complete, with the table only, without a table.
LoadData ==
    {null, [iconSize |-> 20]}
        \cup {[DEFAULT_SETTINGS EXCEPT !.folderIconMap = t] : t \in PersistedTables}
        \cup {[folderIconMap |-> t] : t \in PersistedTables}
        \cup {[folderIconMap |-> t, iconPosition |-> "after"] : t \in PersistedTables}

InitLoad ==
    /\ pc = "onload"
    /\ persisted \in LoadData
    /\ settings = undefined
    /\ calls = <<>>
    /\ NoViews

\* The plugin is disabled and enabled again: a new instance runs onload on
\* the data.json the old one left.
Reload ==
    /\ pc = "loaded"
    /\ pc' = "onload"
    /\ settings' = undefined
    /\ UNCHANGED <<persisted, calls, renderVars, tabVars, asyncVars>>

NextLoad ==
    \/ LoadSettings
    \/ Reload

SpecLoad == InitLoad /\ [][NextLoad]_vars

\* The keys of table t that hold a bare icon name.
BareStrings(t) == {k \in DOMAIN t : "value" \in DOMAIN t[k]}

\* The table of a data.json file, if it has one.
HasTable(data) == "folderIconMap" \in DOMAIN data

\* C27: a load of a table without bare strings leaves this.settings with
\* that table and writes nothing to data.json; a load of a table with a
\* bare string writes this.settings to data.json, and what it writes holds
\* no bare string, so the next load of it is of the first kind.
C27_MigrationIdempotent ==
    [][(LoadSettings /\ HasTable(persisted)) =>
           IF BareStrings(persisted.folderIconMap) = {}
           THEN /\ settings'.folderIconMap = persisted.folderIconMap
                /\ persisted' = persisted
           ELSE /\ persisted' = settings'
                /\ BareStrings(persisted'.folderIconMap) = {}]_vars

\* C27 witness: the plugin has loaded a data.json whose table holds the
\* record {icon: "pencil"}, which only a migration writes, and which had no
\* setting but the table and the position before the migration saved it.
C27_Witness ==
    /\ pc = "loaded"
    /\ DOMAIN persisted = DOMAIN DEFAULT_SETTINGS
    /\ persisted.iconPosition = "after"
    /\ \E k \in DOMAIN persisted.folderIconMap :
           persisted.folderIconMap[k] = [icon |-> "pencil"]
    /\ settings = persisted

---------------------------------------------------------------------------
(* Repeated passes over a rendered note.                                   *)

\* C22: after every step each link has at most one .link-icon element
\* carrying its data-link-id, and a processLinksInElement pass that is not
\* preceded by a clear leaves a link that was already processed with the
\* icon elements it had.
C22_AtMostOneIcon ==
    [][/\ \A i \in LinkIds : Cardinality(IconNodesOf(i)') <= 1
       /\ ProcessLinksInElement =>
              \A i \in LinkIds :
                  LinkNodeOf(i).processed =>
                      /\ LinkNodeOf(i)' = LinkNodeOf(i)
                      /\ Cardinality(IconNodesOf(i)') = Cardinality(IconNodesOf(i))]_vars

\* C22 witness: both links of the note are processed and each has exactly
\* one icon element carrying its id, so a further pass finds both marked.
C22_Witness ==
    /\ Loaded
    /\ \A i \in LinkIds :
           /\ LinkNodeOf(i).processed
           /\ Cardinality(IconNodesOf(i)) = 1

---------------------------------------------------------------------------
(***************************************************************************)
(* The icon picker.  "Add mapping" and the icon button of a row open an    *)
(* IconPickerModal with a callback; the user clicks icons of the grid and  *)
(* presses Select or Cancel.  The note shown has links into folder a.      *)
(***************************************************************************)

PickerFolders == {<<"a">>}

PickerData ==
    {[DEFAULT_SETTINGS EXCEPT !.folderIconMap = t] :
        t \in UNION {[D -> TabMappings] : D \in SUBSET PickerFolders}}

InitPicker ==
    /\ pc = "onload"
    /\ persisted \in PickerData
    /\ settings = undefined
    /\ calls = <<>>
    /\ targets = [i \in LinkIds |-> TFile(<<"a">>)]
    /\ dom = renderedNote(MaxLinks)
    /\ decorations = <<>>
    /\ raised = FALSE
    /\ rows = <<>>
    /\ Idle

\* new IconPickerModal(app, onSelect).open()
IconPickerModal(purpose, folderPath) ==
    [open |-> TRUE, purpose |-> purpose, folderPath |-> folderPath,
     selectedIcon |-> null, onSelectCalls |-> <<>>]

\* "Add mapping": the folder modal has returned folderPath and opens the
\* picker.
OpenAddPicker(folderPath) ==
    /\ pc = "loaded"
    /\ ~modal.open
    /\ modal' = IconPickerModal("add", folderPath)
    /\ UNCHANGED <<pc, persisted, settings, calls, renderVars, tabVars,
                   pending, plugin, now, timers>>

\* The icon button of the row of folderPath opens the picker.
OpenRowPicker(folderPath) ==
    /\ pc = "loaded"
    /\ ~modal.open
    /\ folderPath \in DOMAIN rows
    /\ modal' = IconPickerModal("change", folderPath)
    /\ UNCHANGED <<pc, persisted, settings, calls, renderVars, tabVars,
                   pending, plugin, now, timers>>

\* A click on the grid item of iconName.
ClickIcon(iconName) ==
    /\ modal.open
    /\ modal' = [modal EXCEPT !.selectedIcon = JsString(iconName)]
    /\ UNCHANGED <<pc, persisted, settings, calls, renderVars, tabVars,
                   pending, plugin, now, timers>>

\* this.onSelect(iconName), by the callback the picker was opened with.
onSelect(iconName) ==
    IF modal.purpose = "add"
    THEN onSelectAdd(modal.folderPath, iconName)
    ELSE onSelectChange(modal.folderPath, iconName)

\* The Select button with this.close() moved out of if (this.selectedIcon).
PressSelect_ClosesAnyway ==
    /\ modal.open
    /\ IF Truthy(modal.selectedIcon)
       THEN /\ onSelect(modal.selectedIcon.value)
            /\ modal' = [NoModal EXCEPT
                            !.onSelectCalls = Append(modal.onSelectCalls,
                                                     modal.selectedIcon)]
            /\ UNCHANGED <<pc, calls, pending, plugin, now, timers>>
       ELSE /\ modal' = NoModal
            /\ UNCHANGED <<pc, persisted, settings, calls, renderVars, tabVars,
                           pending, plugin, now, timers>>

\* The Select button.  A closed picker is gone: what remains of it is the
\* names it passed to its callback.
PressSelect ==
    /\ modal.open
    /\ IF Truthy(modal.selectedIcon)
       THEN /\ onSelect(modal.selectedIcon.value)
            /\ modal' = [NoModal EXCEPT
                            !.onSelectCalls = Append(modal.onSelectCalls,
                                                     modal.selectedIcon)]
            /\ UNCHANGED <<pc, calls, pending, plugin, now, timers>>
       ELSE UNCHANGED vars

\* The Cancel button.
PressCancel ==
    /\ modal.open
    /\ modal' = NoModal
    /\ UNCHANGED <<pc, persisted, settings, calls, renderVars, tabVars,
                   pending, plugin, now, timers>>

NextPicker ==
    \/ LoadSettings
    \/ Display
    \/ \E folderPath \in PickerFolders : OpenAddPicker(folderPath)
    \/ \E folderPath \in PickerFolders : OpenRowPicker(folderPath)
    \/ \E iconName \in allIcons : ClickIcon(iconName)
    \/ PressSelect
    \/ PressCancel

SpecPicker == InitPicker /\ [][NextPicker]_vars

\* C25: the callback is called only by a press of Select while an icon is
\* selected: it gets the icon clicked last, once, and the picker closes;
\* a press of Select with nothing selected changes nothing and leaves the
\* picker open, Cancel calls nothing, and the table changes in no step of
\* the picker but a press of Select with an icon selected, after which the
\* entry of the picker's folder has that icon.
C25_OnSelectOnlyOnSelect ==
    [][/\ \A iconName \in allIcons :
              ClickIcon(iconName) => modal'.selectedIcon = JsString(iconName)
       /\ PressSelect =>
              IF modal.selectedIcon = null
              THEN modal' = modal /\ settings' = settings /\ persisted' = persisted
              ELSE /\ ~modal'.open
                   /\ modal'.onSelectCalls = <<modal.selectedIcon>>
                   /\ settings'.folderIconMap[modal.folderPath].icon
                          = modal.selectedIcon.value
       /\ PressCancel =>
              /\ modal'.onSelectCalls = <<>>
              /\ settings' = settings /\ persisted' = persisted
       /\ (Loaded /\ settings' # settings) =>
              /\ modal.open /\ modal.selectedIcon # null
              /\ modal'.onSelectCalls = <<modal.selectedIcon>>]_vars

\* C25 witness: a picker has closed after passing star to its callback,
\* and the entry of folder a is {icon: "star"}, saved.
C25_Witness ==
    /\ Loaded
    /\ ~modal.open
    /\ modal.onSelectCalls = <<JsString("star")>>
    /\ <<"a">> \in DOMAIN Table
    /\ Table[<<"a">>] = [icon |-> "star"]
    /\ persisted = settings

\* C26: the icon selected in the picker is held under catalog key K, and
\* the name the picker passes on converts back to K, by toPascalCase of
\* the plugin and by that of the editor widget.
C26_NamesRoundTrip ==
    (modal.open /\ modal.selectedIcon # null) =>
        LET name == Spelling[modal.selectedIcon.value]
        IN  /\ toPascalCase(name) = iconMap[name]
            /\ widgetToPascalCase(name) = iconMap[name]

---------------------------------------------------------------------------
(***************************************************************************)
(* The handlers of the settings tab as the asynchronous functions they     *)
(* are.  A handler writes this.plugin.settings and suspends at             *)
(* await this.plugin.saveSettings(); saveData was given the settings as    *)
(* they were at the call.  When the write has completed the handler        *)
(* resumes and runs to its end.  Other handlers, and the passes the plugin *)
(* schedules itself, run while a handler is suspended.  The user moves the *)
(* position to "after", the size to 20, the colours to #00ff00 and the     *)
(* icon of a row to star.                                                  *)
(***************************************************************************)

MaxPending == 2


\* await this.plugin.saveSettings() with the call of processAllLinks moved
\* before it.
awaitSaveSettings_ProcessFirst(handler) ==
    /\ pending' = Append(pending, [handler |-> handler, saved |-> settings'])
    /\ \E pass \in {processAllLinks(dom, settings', targets)} :
           /\ dom' = pass.dom
           /\ raised' = (raised \/ pass.threw)
    /\ UNCHANGED <<persisted, targets, decorations, rows>>

\* await this.plugin.saveSettings(): saveData(this.settings) is called and
\* the handler is suspended until the write completes.
awaitSaveSettings(handler) ==
    /\ pending' = Append(pending, [handler |-> handler, saved |-> settings'])
    /\ UNCHANGED <<persisted, renderVars, rows>>

\* A handler can start: the plugin is loaded.
CanStart ==
    /\ pc = "loaded"
    /\ Len(pending) < MaxPending

\* Icon position dropdown, onChange up to its await.
IconPositionChanged(value) ==
    /\ CanStart
    /\ settings' = [settings EXCEPT !.iconPosition = value]
    /\ awaitSaveSettings("iconPosition")
    /\ UNCHANGED <<pc, calls, modal, plugin, now, timers>>

\* Icon size slider, onChange up to its await.
IconSizeChanged(value) ==
    /\ CanStart
    /\ settings' = [settings EXCEPT !.iconSize = value]
    /\ awaitSaveSettings("iconSize")
    /\ UNCHANGED <<pc, calls, modal, plugin, now, timers>>

\* Default icon color, text field and colour input, up to the await.
IconColorChanged(value) ==
    /\ CanStart
    /\ settings' = [settings EXCEPT !.iconColor = value]
    /\ awaitSaveSettings("iconColor")
    /\ UNCHANGED <<pc, calls, modal, plugin, now, timers>>

\* The callback of "Add mapping" up to its await.
MappingAdded(folderPath, iconName) ==
    /\ CanStart
    /\ settings' = [settings EXCEPT
                      !.folderIconMap = Put(@, folderPath, [icon |-> iconName])]
    /\ awaitSaveSettings("add")
    /\ UNCHANGED <<pc, calls, modal, plugin, now, timers>>

\* this.plugin.settings.folderIconMap[folderPath]?.color, as an entry
\* withIcon can read.
entryOrNone(s, folderPath) ==
    IF folderPath \in DOMAIN s.folderIconMap
    THEN s.folderIconMap[folderPath]
    ELSE EmptyObject

\* The callback of the icon button of a row up to its await.
MappingIconChanged(folderPath, newIconName) ==
    /\ CanStart
    /\ folderPath \in DOMAIN rows
    /\ settings' = [settings EXCEPT
                      !.folderIconMap = Put(@, folderPath,
                                            withIcon(entryOrNone(settings, folderPath),
                                                     newIconName))]
    /\ awaitSaveSettings("icon")
    /\ UNCHANGED <<pc, calls, modal, plugin, now, timers>>

\* The colour input of a row, change handler up to its await.
MappingColorPicked(folderPath, hexColor) ==
    /\ CanStart
    /\ folderPath \in DOMAIN rows
    /\ settings' = [settings EXCEPT
                      !.folderIconMap = Put(@, folderPath,
                                            withColor(rows[folderPath], hexColor))]
    /\ awaitSaveSettings("color")
    /\ UNCHANGED <<pc, calls, modal, plugin, now, timers>>

\* The trash button of a row, onClick up to its await.
MappingDeleted(folderPath) ==
    /\ CanStart
    /\ folderPath \in DOMAIN rows
    /\ settings' = [settings EXCEPT !.folderIconMap = Delete(@, folderPath)]
    /\ awaitSaveSettings("delete")
    /\ UNCHANGED <<pc, calls, modal, plugin, now, timers>>

\* pending without its k-th handler.
resumed(k) == SubSeq(pending, 1, k - 1) \o SubSeq(pending, k + 1, Len(pending))

\* The write of the k-th suspended handler completes and the handler runs
\* to its end: renderMappings for add and delete, then processAllLinks.
SaveCompleted(k) ==
    /\ k \in DOMAIN pending
    /\ persisted' = pending[k].saved
    /\ pending' = resumed(k)
    /\ rows' = IF pending[k].handler \in {"add", "delete"}
               THEN renderMappings(settings)
               ELSE rows
    /\ \E pass \in {processAllLinks(dom, settings, targets)} :
           /\ dom' = pass.dom
           /\ raised' = (raised \/ pass.threw)
    /\ UNCHANGED <<pc, settings, calls, targets, decorations, modal, plugin, now, timers>>

NextSave ==
    \/ LoadSettings
    \/ ProcessAllLinks
    \/ \E value \in {"after"} : IconPositionChanged(value)
    \/ \E value \in {20} : IconSizeChanged(value)
    \/ \E value \in {"#00ff00"} : IconColorChanged(value)
    \/ \E folderPath \in PickerFolders, iconName \in PickerIcons :
          MappingAdded(folderPath, iconName)
    \/ \E folderPath \in PickerFolders, newIconName \in {"star"} :
          MappingIconChanged(folderPath, newIconName)
    \/ \E folderPath \in PickerFolders, hexColor \in {"#00ff00"} :
          MappingColorPicked(folderPath, hexColor)
    \/ \E folderPath \in PickerFolders : MappingDeleted(folderPath)
    \/ \E k \in 1..MaxPending : SaveCompleted(k)

SpecSave == InitPicker /\ [][NextSave]_vars

\* The pass a handler runs when it resumes.
HandlerPass(k) ==
    /\ pending' = resumed(k)
    /\ dom' = processAllLinks(dom, settings, targets).dom

\* C21: a step of the settings tab that changes the in-memory settings
\* neither writes data.json nor touches the icons, and leaves a handler
\* waiting for the write of the settings as changed; the step in which a
\* handler runs its processAllLinks is the one in which that write has
\* completed, so data.json then holds the settings as that handler changed
\* them, and the pass changes no setting.
C21_SaveBeforeProcess ==
    [][/\ (Loaded /\ settings' # settings) =>
              /\ persisted' = persisted
              /\ dom' = dom
              /\ pending' = Append(pending, pending'[Len(pending')])
              /\ pending'[Len(pending')].saved = settings'
       /\ (Loaded /\ Len(pending') < Len(pending)) =>
              \E k \in DOMAIN pending :
                  /\ HandlerPass(k)
                  /\ persisted' = pending[k].saved
                  /\ settings' = settings]_vars

\* C21 witness: the handler of the size slider has resumed and drawn the
\* icons, data.json holding size 20, while a handler that changed the
\* position is still waiting for its write.
C21_Witness ==
    /\ Loaded
    /\ persisted.iconSize = 20
    /\ Len(pending) = 1
    /\ pending[1].handler = "iconPosition"
    /\ settings.iconPosition # persisted.iconPosition
    /\ \E j \in DOMAIN dom : dom[j].kind = "icon"

---------------------------------------------------------------------------
(***************************************************************************)
(* The life of the plugin: onload arms the periodic check and the          *)
(* mutation observer, the handlers of workspace events and the markdown    *)
(* post-processor schedule callbacks with setTimeout, the observer         *)
(* debounces, onunload cleans up.  Time is Date.now() in milliseconds and  *)
(* advances in steps of TimeStep; a timer fires in the step of time in     *)
(* which it falls due, timers due together in any order.  The handler of   *)
(* editor-change, a debounce like the observer's over variables local to   *)
(* onload, is left out.                                                    *)
(***************************************************************************)

TimeStep == 50

\* Date.now() when the plugin is loaded.
StartTime == 1000

MaxTicks == 16

MaxTimers == 4

MIN_PROCESS_INTERVAL == 500

MutationDelay == 300

FileOpenDelay == 300

LayoutChangeDelay == 200

ActiveLeafChangeDelay == 100

\* The three timeouts of the post-processor; the first clears the icons
\* of the element before it processes the links.
PostProcessorDelays == <<50, 200, 500>>

PostProcessorKinds == <<"post-processor-1", "post-processor-2", "post-processor-3">>

PeriodicCheckDelay == 2000

ObserverData ==
    {[DEFAULT_SETTINGS EXCEPT !.folderIconMap = [D \in {<<"a">>} |-> [icon |-> "file"]]]}

InitPlugin ==
    /\ pc = "onload"
    /\ persisted \in ObserverData
    /\ settings = undefined
    /\ calls = <<>>
    /\ targets = [i \in LinkIds |-> TFile(<<"a">>)]
    /\ dom = renderedNote(MaxLinks)
    /\ decorations = <<>>
    /\ raised = FALSE
    /\ rows = <<>>
    /\ pending = <<>>
    /\ modal = NoModal
    /\ plugin = NewPlugin
    /\ now = StartTime
    /\ timers = {}

\* The id setTimeout returns: one no pending timer has and no field holds.
newId(held) ==
    CHOOSE id \in 1..(MaxTimers + 3) :
        /\ id \notin {t.id : t \in held}
        /\ id \notin {plugin.mutationTimeout, plugin.periodicCheckInterval}
        /\ \A other \in 1..(id - 1) :
               \/ other \in {t.id : t \in held}
               \/ other \in {plugin.mutationTimeout, plugin.periodicCheckInterval}

\* setTimeout(callback, delay) on the timers held
setTimeout(held, kind, delay) ==
    held \cup {[id |-> newId(held), kind |-> kind, due |-> now + delay]}

\* clearTimeout(id)
clearTimeout(held, id) == {t \in held : t.id # id}

\* updateObserver: a new observer if there is none, else the old one
\* disconnected; then the views are observed.
updateObserver(p) == [p EXCEPT !.observer = "observing"]

\* onload: settings loaded, handlers registered, processAllLinks, the
\* periodic check armed; the layout is ready, so the observer is set up.
Onload ==
    /\ pc = "onload"
    /\ pc' = "loaded"
    /\ settings' = loadedSettings(persisted)
    /\ persisted' = IF loadSaves(persisted) THEN settings' ELSE persisted
    /\ \E pass \in {processAllLinks(dom, settings', targets)} :
           /\ dom' = pass.dom
           /\ raised' = (raised \/ pass.threw)
    /\ timers' = setTimeout(timers, "interval", PeriodicCheckDelay)
    /\ plugin' = [updateObserver(plugin) EXCEPT !.periodicCheckInterval = newId(timers)]
    /\ UNCHANGED <<calls, targets, decorations, rows, pending, modal, now>>

\* Room for n more timers.
Room(n) == Cardinality(timers) + n <= MaxTimers

\* workspace event file-open
FileOpen ==
    /\ pc = "loaded"
    /\ Room(1)
    /\ timers' = setTimeout(timers, "file-open", FileOpenDelay)
    /\ UNCHANGED <<pc, persisted, settings, calls, renderVars, rows, pending, modal,
                   plugin, now>>

\* workspace event layout-change
LayoutChange ==
    /\ pc = "loaded"
    /\ Room(1)
    /\ timers' = setTimeout(timers, "layout-change", LayoutChangeDelay)
    /\ UNCHANGED <<pc, persisted, settings, calls, renderVars, rows, pending, modal,
                   plugin, now>>

\* workspace event active-leaf-change
ActiveLeafChange ==
    /\ pc = "loaded"
    /\ Room(1)
    /\ timers' = setTimeout(timers, "active-leaf-change", ActiveLeafChangeDelay)
    /\ UNCHANGED <<pc, persisted, settings, calls, renderVars, rows, pending, modal,
                   plugin, now>>

\* The markdown post-processor: the host has rendered the note.
RECURSIVE postProcessorTimers(_, _)
postProcessorTimers(held, k) ==
    IF k = 0 THEN held
    ELSE setTimeout(postProcessorTimers(held, k - 1),
                    PostProcessorKinds[k], PostProcessorDelays[k])

MarkdownPostProcessor ==
    /\ pc = "loaded"
    /\ Room(Len(PostProcessorDelays))
    /\ dom' = renderedNote(MaxLinks)
    /\ timers' = postProcessorTimers(timers, Len(PostProcessorDelays))
    /\ UNCHANGED <<pc, persisted, settings, calls, targets, decorations, raised, rows,
                   pending, modal, plugin, now>>

\* The callback of the MutationObserver without its clearTimeout.
MutationBatch_NoClear(addsLink) ==
    /\ pc # "onload"
    /\ plugin.observer = "observing"
    /\ Room(1)
    /\ dom' = IF addsLink THEN renderedNote(MaxLinks) ELSE dom
    /\ IF now - plugin.lastProcessTime < MIN_PROCESS_INTERVAL \/ ~addsLink
       THEN UNCHANGED <<timers, plugin>>
       ELSE /\ timers' = setTimeout(timers, "mutation", MutationDelay)
            /\ plugin' = [plugin EXCEPT !.mutationTimeout = newId(timers)]
    /\ UNCHANGED <<pc, persisted, settings, calls, targets, decorations, raised, rows,
                   pending, modal, now>>

\* The callback of the MutationObserver on a batch of mutations that add
\* an internal link (the host has rendered the links anew) or none.
MutationBatch(addsLink) ==
    /\ pc # "onload"
    /\ plugin.observer = "observing"
    /\ Room(1)
    /\ dom' = IF addsLink THEN renderedNote(MaxLinks) ELSE dom
    /\ IF now - plugin.lastProcessTime < MIN_PROCESS_INTERVAL \/ ~addsLink
       THEN UNCHANGED <<timers, plugin>>
       ELSE LET held == IF plugin.mutationTimeout # 0
                        THEN clearTimeout(timers, plugin.mutationTimeout)
                        ELSE timers
            IN  /\ timers' = setTimeout(held, "mutation", MutationDelay)
                /\ plugin' = [plugin EXCEPT !.mutationTimeout = newId(held)]
    /\ UNCHANGED <<pc, persisted, settings, calls, targets, decorations, raised, rows,
                   pending, modal, now>>

\* Time passes; no timer is overdue.
Tick ==
    /\ pc # "onload"
    /\ now < StartTime + MaxTicks * TimeStep
    /\ \A t \in timers : now < t.due
    /\ now' = now + TimeStep
    /\ UNCHANGED <<pc, persisted, settings, calls, renderVars, rows, pending, modal,
                   plugin, timers>>

\* What the callback of timer t does to the note.
callbackPass(t) ==
    IF t.kind \in {"mutation", "file-open", "active-leaf-change", "post-processor-1"}
    THEN processAllLinks(dom, settings, targets)
    ELSE IF t.kind \in {"post-processor-2", "post-processor-3", "interval"}
    THEN processLinksInElement(dom, settings, targets)
    ELSE [dom |-> dom, threw |-> FALSE]

\* What the callback of timer t does to the fields of the plugin.
callbackFields(t) ==
    IF t.kind = "mutation" THEN [plugin EXCEPT !.lastProcessTime = now]
    ELSE IF t.kind \in {"file-open", "layout-change"} THEN updateObserver(plugin)
    ELSE plugin

\* The host runs the callback of timer t, which has fallen due; the
\* callback of setInterval is armed again.
TimerFires(t) ==
    /\ t \in timers
    /\ t.due <= now
    /\ timers' = IF t.kind = "interval"
                 THEN (timers \ {t}) \cup {[t EXCEPT !.due = now + PeriodicCheckDelay]}
                 ELSE timers \ {t}
    /\ plugin' = callbackFields(t)
    /\ \E pass \in {callbackPass(t)} :
           /\ dom' = pass.dom
           /\ raised' = (raised \/ pass.threw)
    /\ UNCHANGED <<pc, persisted, settings, calls, targets, decorations, rows,
                   pending, modal, now>>

\* onunload.  The host detaches the handlers registered with registerEvent
\* and the post-processor.
Onunload ==
    /\ pc = "loaded"
    /\ pc' = "unloaded"
    /\ timers' = IF plugin.periodicCheckInterval # 0
                 THEN clearTimeout(timers, plugin.periodicCheckInterval)
                 ELSE timers
    /\ plugin' = [plugin EXCEPT !.observer = "null", !.periodicCheckInterval = 0]
    /\ UNCHANGED <<persisted, settings, calls, renderVars, rows, pending, modal, now>>

NextObserver ==
    \/ Onload
    \/ \E addsLink \in BOOLEAN : MutationBatch(addsLink)
    \/ Tick
    \/ \E t \in timers : TimerFires(t)

SpecObserver == InitPlugin /\ [][NextObserver]_vars

NextPlugin ==
    \/ Onload
    \/ FileOpen
    \/ LayoutChange
    \/ ActiveLeafChange
    \/ MarkdownPostProcessor
    \/ \E addsLink \in BOOLEAN : MutationBatch(addsLink)
    \/ Tick
    \/ \E t \in timers : TimerFires(t)
    \/ Onunload

SpecPlugin == InitPlugin /\ [][NextPlugin]_vars

\* The pending timers the observer has scheduled.
ObserverTimers == {t \in timers : t.kind = "mutation"}

\* The callbacks that run processAllLinks or processLinksInElement.
ProcessingKinds ==
    {"mutation", "file-open", "active-leaf-change", "interval"}
        \cup {PostProcessorKinds[k] : k \in DOMAIN PostProcessorKinds}

\* C23: at most one timer scheduled by the observer is pending after every
\* step; the observer's processing records its time; and a batch of
\* mutations that adds no internal link, or that arrives less than 500 ms
\* after the observer's last processing, leaves the timers and the fields
\* of the plugin as they are, while any other batch leaves exactly one
\* observer timer, due 300 ms later.
C23_ObserverDebounces ==
    [][/\ Cardinality(ObserverTimers') <= 1
       /\ \A t \in ObserverTimers : TimerFires(t) => plugin'.lastProcessTime = now
       /\ \A addsLink \in BOOLEAN :
              MutationBatch(addsLink) =>
                  IF ~addsLink \/ now - plugin.lastProcessTime < 500
                  THEN timers' = timers /\ plugin' = plugin
                  ELSE /\ ObserverTimers' \cap ObserverTimers = {}
                       /\ \E t \in ObserverTimers' :
                              /\ ObserverTimers' = {t}
                              /\ t.due = now + 300]_vars

\* C23 witness: the observer has processed once, more than 500 ms have
\* passed, and a later batch has scheduled the next timer.
C23_Witness ==
    /\ plugin.lastProcessTime > 0
    /\ \E t \in ObserverTimers : t.due >= plugin.lastProcessTime + 500 + 300

\* C24: once onunload has run there is no observer and no periodic check,
\* and no callback the plugin scheduled runs processAllLinks or
\* processLinksInElement or creates an observer.
C24_QuiescentAfterUnload ==
    [][pc = "unloaded" =>
           /\ plugin.observer = "null" /\ plugin'.observer = "null"
           /\ plugin'.periodicCheckInterval = 0
           /\ \A t \in timers' : t.kind # "interval"
           /\ \A t \in timers : t.kind \in ProcessingKinds => ~TimerFires(t)]_vars

=============================================================================
